---- MODULE Spec2Model ----
(***************************************************************************)
(* A model of the LegendaryMediaTV CMS class (src/app.js): the settings    *)
(* bootstrap of the constructor, listen() and its central router, findPage,*)
(* migrate, the two document-store operations they use (findOne and       *)
(* replaceOne) and a call of any of the nine document-store operations.    *)
(*                                                                         *)
(* JavaScript strings are sequences of atoms.  An atom stands for a run of *)
(* characters that holds no separator ("/", "-" or the template divider),  *)
(* so split, indexOf, substr and toLowerCase are computed as the code      *)
(* computes them.  JavaScript values are tagged records.                   *)
(***************************************************************************)
EXTENDS Integers, Sequences, FiniteSets, TLC

VARIABLES
    store,      \* the MongoDB database: <<collection, _id>> -> document
    storeUp,    \* whether the MongoDB server accepts connections
    queryUp,    \* whether the MongoDB server answers the query of a connection
    conns,      \* the connections that were opened and not closed
    outage,     \* whether the MongoDB server may stop answering in this run
    seed,       \* the seed directory: the sequence of its files
    env,        \* Express' env setting ('development' or 'production')
    webapp,     \* this._webapp is set (listen() has been called)
    debug,      \* this.debug
    settings,   \* this.settings
    clock,      \* the time new Date() returns next
    boot,       \* the constructor's settings bootstrap (promise chain)
    mig,        \* the migrate() call of each process
    inbound,    \* the request each client sends (its req.originalUrl)
    req,        \* the central router's handling of each request
    call        \* a call of a document-store operation by the embedding script

vars == <<store, storeUp, queryUp, conns, outage, seed, env, webapp, debug, settings, clock,
          boot, mig, inbound, req, call>>

(***************************************************************************)
(* Bounds of the model.                                                    *)
(***************************************************************************)
\* the longest request path, in atoms
MaxPathLen == 4

(***************************************************************************)
(* JavaScript values.                                                      *)
(***************************************************************************)
Undefined == [tag |-> "undefined"]
Null == [tag |-> "null"]
Str(s) == [tag |-> "string", s |-> s]

\* ToBoolean of the values the model uses
Truthy(v) == v.tag = "object" \/ (v.tag = "string" /\ v.s # <<>>)

\* the one element of a set of one
Only(S) == CHOOSE x \in S : TRUE

\* String.prototype.indexOf(c): the 0-based index of the first c, or -1
indexOf(s, c) ==
    IF \E i \in 1..Len(s) : s[i] = c
    THEN (CHOOSE i \in 1..Len(s) : s[i] = c /\ \A j \in 1..(i - 1) : s[j] # c) - 1
    ELSE -1

\* String.prototype.substr(start, length) for start >= 0
substr(s, start, length) ==
    IF length <= 0 THEN <<>>
    ELSE SubSeq(s, start + 1, IF start + length > Len(s) THEN Len(s) ELSE start + length)

\* String.prototype.substr(start) for start >= 0
substrFrom(s, start) == SubSeq(s, start + 1, Len(s))

\* String.prototype.split(separator)
RECURSIVE split(_, _)
split(s, separator) ==
    Only({IF i = -1 THEN <<x>>
          ELSE <<SubSeq(x, 1, i)>> \o split(SubSeq(x, i + 2, Len(x)), separator) :
             <<x, i>> \in {<<y, indexOf(y, separator)>> : y \in {s}}})

\* String.prototype.toLowerCase()
LowerAtom(a) == IF a = "POST" THEN "post" ELSE a
toLowerCase(s) == [i \in 1..Len(s) |-> LowerAtom(s[i])]

(***************************************************************************)
(* Names.                                                                  *)
(***************************************************************************)
cmsTemplateDivider == "DIVIDER"
Home == <<"home">>
Cms == <<"cms">>
CmsPages == <<"cmsPages">>
CmsTemplates == <<"cmsTemplates">>
SettingsId == <<"settings">>

\* A stored document.  data stands for the JSON payload's own fields (title,
\* tagline, asset URLs); created = 0 stands for "no timestamp".
Document(id, data, template, header, body, footer, created, updated) ==
    [tag |-> "object", id |-> id, data |-> data, template |-> template,
     header |-> header, body |-> body, footer |-> footer,
     created |-> created, updated |-> updated]

(***************************************************************************)
(* The stored source fragments.  A fragment is a string of statements:     *)
(*   "mkOut"   output = new bs.HTML(...); output.bootstrap(this.settings.  *)
(*             bootstrapCSS, ...)   (what the seed template's header does) *)
(*   "mkPlain" output = new bs.HTML(...) alone, this.settings not used     *)
(*   "useOut"  a call of a method of output                                *)
(*   "throw"   a statement that throws                                     *)
(*   "nop"     a statement that neither throws nor touches output          *)
(***************************************************************************)
Html(panels) == [tag |-> "html", panels |-> panels]

\* the statements of a fragment, run in order until one throws
RECURSIVE Run(_, _, _)
Run(code, output, set) ==
    IF code = <<>> THEN [output |-> output, threw |-> FALSE]
    ELSE LET stmt == Head(code)
         IN  CASE stmt = "mkOut" ->
                    IF set.tag = "object" THEN Run(Tail(code), Html(<<>>), set)
                    ELSE [output |-> Html(<<>>), threw |-> TRUE]
               [] stmt = "mkPlain" -> Run(Tail(code), Html(<<>>), set)
               [] stmt = "useOut" ->
                    IF output.tag = "html"
                    THEN Run(Tail(code), Html(Append(output.panels, "content")), set)
                    ELSE [output |-> output, threw |-> TRUE]
               [] stmt = "throw" -> [output |-> output, threw |-> TRUE]
               [] OTHER -> Run(Tail(code), output, set)

\* eval(v): a string is run as code, any other value is returned as it is
Eval(v, output, set) ==
    IF v.tag = "string" THEN Run(v.s, output, set)
    ELSE [output |-> output, threw |-> FALSE]

(***************************************************************************)
(* The seed directory: metadata files <collection>-<id>.json and source    *)
(* files <collection>-<id>.js.  parses tells whether JSON.parse accepts    *)
(* the metadata file; template is the payload's template field.            *)
(***************************************************************************)
JsonFile(name, parses, template) ==
    [name |-> name, ext |-> ".json", parses |-> parses, template |-> template, src |-> <<>>]
JsFile(name, src) ==
    [name |-> name, ext |-> ".js", parses |-> FALSE, template |-> Undefined, src |-> src]

SettingsName == <<"cms", "-", "settings">>
HomeName == <<"cmsPages", "-", "home">>
DefaultName == <<"cmsTemplates", "-", "default">>
MyPostName == <<"cmsPages", "-", "my", "-", "post">>
BareName == <<"cmsTemplates", "-", "bare">>
\* the seed template source of the repository: a header, an empty body, a footer
DefaultSource == <<"mkOut", cmsTemplateDivider, cmsTemplateDivider, "nop">>

SeedGood ==
    << JsonFile(SettingsName, TRUE, Undefined),
       JsFile(HomeName, <<"useOut">>),
       JsonFile(HomeName, TRUE, Str(<<"default">>)),
       JsFile(DefaultName, DefaultSource),
       JsonFile(DefaultName, TRUE, Undefined) >>
\* no home page; a page whose _id holds a '-', a template without a source
\* file and a source file next to the settings
SeedNoHome ==
    << JsFile(DefaultName, DefaultSource),
       JsonFile(DefaultName, TRUE, Undefined),
       JsonFile(SettingsName, TRUE, Undefined),
       JsFile(SettingsName, <<"nop">>),
       JsonFile(MyPostName, TRUE, Str(<<"default">>)),
       JsFile(MyPostName, <<"useOut", "nop">>),
       JsonFile(BareName, TRUE, Undefined) >>
SeedOnePart ==
    << JsFile(DefaultName, <<"mkOut">>),
       JsonFile(DefaultName, TRUE, Undefined),
       JsFile(HomeName, <<"useOut">>),
       JsonFile(HomeName, TRUE, Str(<<"default">>)),
       JsonFile(SettingsName, TRUE, Undefined) >>
SeedFourParts ==
    << JsonFile(SettingsName, TRUE, Undefined),
       JsFile(DefaultName, <<"mkOut", cmsTemplateDivider, cmsTemplateDivider, cmsTemplateDivider>>),
       JsonFile(DefaultName, TRUE, Undefined),
       JsonFile(HomeName, TRUE, Str(<<"default">>)) >>
SeedBadJson ==
    << JsonFile(HomeName, FALSE, Undefined),
       JsFile(HomeName, <<"useOut">>),
       JsonFile(SettingsName, TRUE, Undefined) >>
SeedNoSettings ==
    << JsonFile(HomeName, TRUE, Str(<<"default">>)),
       JsFile(HomeName, <<"useOut">>),
       JsFile(DefaultName, DefaultSource),
       JsonFile(DefaultName, TRUE, Undefined) >>
Seeds == {SeedGood, SeedNoHome, SeedOnePart, SeedFourParts, SeedBadJson, SeedNoSettings}

(***************************************************************************)
(* The database before the program starts.                                 *)
(***************************************************************************)
Put(f, k, v) == [x \in DOMAIN f \cup {k} |-> IF x = k THEN v ELSE f[x]]

EmptyStore == [k \in {} |-> Null]
OldPage(id, template) ==
    Document(Str(id), "old", Str(template), Undefined, Str(<<"useOut">>), Undefined, 1, 1)
OldTemplate(id) ==
    Document(Str(id), "old", Undefined, Str(<<"mkOut">>), Null, Str(<<"nop">>), 1, 1)
\* a template whose header builds the document without this.settings and
\* whose footer throws
PlainTemplate ==
    Document(Str(<<"plain">>), "old", Undefined, Str(<<"mkPlain">>), Null, Str(<<"throw">>), 1, 1)
\* a template whose header throws
BrokenTemplate ==
    Document(Str(<<"broken">>), "old", Undefined, Str(<<"throw">>), Null, Str(<<"nop">>), 1, 1)
\* a page whose body throws
BrokenPage(id, template) ==
    Document(Str(id), "old", Str(template), Undefined, Str(<<"throw">>), Undefined, 1, 1)
OldSettings == Document(Str(SettingsId), "old", Undefined, Undefined, Undefined, Undefined, 0, 0)

\* a database seeded earlier, with two more pages; the template of page post
\* has a header that throws
OldStore ==
    Put(Put(Put(Put(Put(Put(EmptyStore,
        <<Cms, SettingsId>>, OldSettings),
        <<CmsPages, Home>>, OldPage(Home, <<"default">>)),
        <<CmsPages, <<"blog">>>>, OldPage(<<"blog">>, <<"default">>)),
        <<CmsPages, <<"post">>>>, OldPage(<<"post">>, <<"broken">>)),
        <<CmsTemplates, <<"default">>>>, OldTemplate(<<"default">>)),
        <<CmsTemplates, <<"broken">>>>, BrokenTemplate)
\* a database without settings and home page: the template of page blog is not
\* stored, page post has a body that throws and the plain template
PartStore ==
    Put(Put(Put(EmptyStore,
        <<CmsPages, <<"blog">>>>, OldPage(<<"blog">>, <<"gone">>)),
        <<CmsPages, <<"post">>>>, BrokenPage(<<"post">>, <<"plain">>)),
        <<CmsTemplates, <<"plain">>>>, PlainTemplate)
Stores == {EmptyStore, OldStore, PartStore}

(***************************************************************************)
(* Document-store operations.  Each enforces its requirements, opens its   *)
(* own connection, runs one query, closes the connection and resolves; the *)
(* query is the step that reads or writes the database.  The catch of the  *)
(* operation rejects and closes nothing: "left" counts the connection that *)
(* an operation opened and did not close.                                  *)
(***************************************************************************)
Resolved(v) == [ok |-> TRUE, val |-> v, err |-> "none", left |-> 0]
\* a throw before the connection is open
Rejected(e) == [ok |-> FALSE, val |-> Undefined, err |-> e, left |-> 0]
\* a throw between MongoClient.connect and client.close()
RejectedOpen(e) == [ok |-> FALSE, val |-> Undefined, err |-> e, left |-> 1]

\* findOne(collection, { _id: id }) against database st; up: the server
\* accepts the connection, qup: it answers the query
findOne(st, up, qup, collection, id) ==
    IF collection = <<>> THEN Rejected("MongoDB collection is required")
    ELSE IF ~up THEN Rejected("MongoError")
    ELSE IF ~qup THEN RejectedOpen("MongoError")
    ELSE IF id.tag = "string" /\ <<collection, id.s>> \in DOMAIN st
         THEN Resolved(st[<<collection, id.s>>])
         ELSE Resolved(Null)

\* mutant: replaceOne without { upsert: true } inserts nothing
ReplacedNoUpsert(st, collection, id, document) ==
    IF <<collection, id>> \in DOMAIN st
    THEN Put(st, <<collection, id>>, [document EXCEPT !.id = Str(id)])
    ELSE st

\* the database after replaceOne(collection, { _id: id }, document, { upsert: true })
Replaced(st, collection, id, document) ==
    Put(st, <<collection, id>>, [document EXCEPT !.id = Str(id)])

\* replaceOne(collection, { _id: id }, document, { upsert: true })
replaceOne(st, up, qup, collection, id, document) ==
    IF collection = <<>> THEN Rejected("MongoDB collection is required")
    ELSE IF document.tag # "object" THEN Rejected("MongoDB document is required")
    ELSE IF ~up THEN Rejected("MongoError")
    ELSE IF ~qup THEN RejectedOpen("MongoError")
    ELSE Resolved(Replaced(st, collection, id, document))

\* a value inside a template literal: a string as it is, any other value by
\* its name
TemplateText(v) == IF v.tag = "string" THEN v.s ELSE <<v.tag>>

\* the document-store operations of the class
Operations ==
    {"deleteMany", "deleteOne", "find", "findOne", "insertOne", "replaceMany",
     "replaceOne", "updateMany", "updateOne"}

\* the constructor's this._connectionString: 'mongodb://', the credentials when
\* a username is given, then server:port with the default port
ConnectionString(a) ==
    Str(<<"mongodb://">>
        \o (IF Truthy(a.username)
            THEN TemplateText(a.username) \o <<":">> \o TemplateText(a.password) \o <<"@">>
            ELSE <<>>)
        \o TemplateText(a.server) \o <<":", "27017">>)

\* the object the constructor leaves: its connection string is set, and no
\* statement of the class assigns this._connection
This(a) == [connectionString |-> ConnectionString(a), connection |-> Undefined]

\* the first argument of MongoClient.connect in each operation
ConnectionOf(op, this) ==
    IF op = "updateOne" THEN this.connection ELSE this.connectionString

\* MongoClient.connect(url): a connection when url is a connection string and
\* the server accepts connections
Connects(url, up) == url.tag = "string" /\ up

\* the database without the record
Removed(st, collection, id) ==
    [k \in DOMAIN st \ {<<collection, id>>} |-> st[k]]

\* the database after an update of the record with { $set: { data: ... } }
Updated(st, collection, id, update) ==
    IF <<collection, id>> \in DOMAIN st
    THEN Put(st, <<collection, id>>, [st[<<collection, id>>] EXCEPT !.data = update.data])
    ELSE st

\* the driver's method of each operation, with the filter { _id: id }: the
\* database after it, or what the call throws.  The driver's collection has no
\* replaceMany, and insertOne refuses a duplicate _id
Query(op, st, collection, id, document) ==
    CASE op \in {"deleteMany", "deleteOne"} -> Resolved(Removed(st, collection, id))
      [] op \in {"find", "findOne"} -> Resolved(st)
      [] op = "insertOne" ->
            IF <<collection, id>> \in DOMAIN st THEN Rejected("MongoError")
            ELSE Resolved(Replaced(st, collection, id, document))
      [] op = "replaceMany" -> Rejected("TypeError")
      [] op = "replaceOne" -> Resolved(Replaced(st, collection, id, document))
      [] op \in {"updateMany", "updateOne"} -> Resolved(Updated(st, collection, id, document))

\* an operation called with (collection, { _id: id }, document, { upsert: true })
\* on an object whose operation connects to url
Operation(op, st, up, qup, url, collection, id, document) ==
    IF collection = <<>> THEN Rejected("MongoDB collection is required")
    ELSE IF op \in {"insertOne", "replaceMany", "replaceOne", "updateMany", "updateOne"}
            /\ document.tag # "object"
    THEN Rejected("MongoDB document is required")
    ELSE IF ~Connects(url, up) THEN Rejected("MongoError")
    ELSE IF ~qup THEN RejectedOpen("MongoError")
    ELSE Only({IF q.ok THEN q ELSE RejectedOpen(q.err) :
                  q \in {Query(op, st, collection, id, document)}})

(***************************************************************************)
(* migrate(force): the pure parts.                                         *)
(***************************************************************************)
\* entryPath.name.substr(0, entryPath.name.indexOf('-'))
ParseCollection(name) == substr(name, 0, indexOf(name, "-"))
\* mutant: the _id is what follows the last '-'
ParseIdLast(name) ==
    SubSeq(name, 1 + (CHOOSE i \in 1..Len(name) :
                         name[i] = "-" /\ \A j \in (i + 1)..Len(name) : name[j] # "-"),
           Len(name))

\* entryPath.name.substr(entryPath.name.indexOf('-') + 1)
ParseId(name) == substrFrom(name, indexOf(name, "-") + 1)

\* the index of the first metadata (.json) entry of dir at or after i
RECURSIVE NextJson(_, _)
NextJson(dir, i) ==
    IF i > Len(dir) THEN i
    ELSE IF dir[i].ext = ".json" THEN i
    ELSE NextJson(dir, i + 1)

\* mutant: the existence test is lost
NeedsUpsertAlways(document, force) == TRUE

\* mutant: nothing is ever upserted
NeedsUpsertNever(document, force) == FALSE

\* if (!document || force)
NeedsUpsert(document, force) == ~Truthy(document) \/ force

\* fs.promises.readFile of the file name + ext of the seed directory
readFile(dir, name, ext) ==
    IF \E i \in 1..Len(dir) : dir[i].name = name /\ dir[i].ext = ext
    THEN Resolved(dir[CHOOSE i \in 1..Len(dir) : dir[i].name = name /\ dir[i].ext = ext])
    ELSE Rejected("ENOENT")

\* source[n].length ? source[n] : null
FragmentOf(part) == IF Len(part) > 0 THEN Str(part) ELSE Null

\* the body of the inner try block once the source file is read: the document
\* with the source injected, and whether the block threw
SourceInto(document, collection, source) ==
    IF collection = CmsPages
    THEN [document |-> [document EXCEPT !.body = Str(source)], threw |-> FALSE]
    ELSE Only({IF Len(parts) # 3
               THEN [document |-> document, threw |-> TRUE]
               ELSE [document |-> [document EXCEPT !.header = FragmentOf(parts[1]),
                                                   !.body = FragmentOf(parts[2]),
                                                   !.footer = FragmentOf(parts[3])],
                     threw |-> FALSE] :
                  parts \in {split(source, cmsTemplateDivider)}})

\* mutant: the source file is never read into the document
WithSourceNone(dir, name, document, collection) == document

\* try { source = await readFile(...); ... } catch (err) { }
WithSource(dir, name, document, collection) ==
    LET file == readFile(dir, name, ".js")
    IN  IF ~file.ok THEN document
        ELSE SourceInto(document, collection, file.val.src).document

\* whether the three-parts error is thrown for this entry
DividerMismatch(dir, name, collection) ==
    /\ collection = CmsTemplates
    /\ readFile(dir, name, ".js").ok
    /\ Len(split(readFile(dir, name, ".js").val.src, cmsTemplateDivider)) # 3

\* mutant: every collection is treated as pages and templates are
StampedAll(collection) == TRUE

\* whether the source file is read and created and updated are set
Stamped(collection) == collection \in {CmsPages, CmsTemplates}

\* the document migrate builds from a metadata file, or the JSON.parse failure
LoadDocument(dir, entry, collection, now) ==
    IF ~entry.parses THEN Rejected("SyntaxError")
    ELSE LET payload == Document(Undefined, "seed", entry.template,
                                 Undefined, Undefined, Undefined, 0, 0)
         IN  IF Stamped(collection)
             THEN Resolved([WithSource(dir, entry.name, payload, collection)
                               EXCEPT !.created = now, !.updated = now])
             ELSE Resolved(payload)

(***************************************************************************)
(* Processes: the constructor's bootstrap and the requests.                *)
(***************************************************************************)
Requests == {"r1"}
Procs == {"boot"} \cup Requests

\* a migrate() call: phase "next" awaits the next directory entry and its
\* findOne, "load" the file reads, "upsert" the replaceOne.  The other fields
\* record what the call did: the records it wrote (writes), those of them that
\* existed when it examined them (rewrote), the records it left alone
\* (skipped), the templates whose three-parts error was thrown (mismatch) and
\* whether a migrate() call had returned success before this one began
\* (afterSeed).
IdleMig ==
    [phase |-> "idle", force |-> FALSE, idx |-> 0, collection |-> <<>>, id |-> <<>>,
     document |-> Undefined, existed |-> FALSE, writes |-> <<>>, rewrote |-> <<>>,
     skipped |-> <<>>, mismatch |-> {}, err |-> "none", afterSeed |-> FALSE]

\* migrate(force) is called
StartMig(force) ==
    [IdleMig EXCEPT !.phase = "next", !.force = force, !.idx = 1,
                    !.afterSeed = \E q \in Procs : mig[q].phase = "done"]

\* a request: the router's locals (cmsTokens, cmsTokenIndex as the 1-based
\* position, cmsPage, output) and what it did: the identifiers passed to
\* findPage (lookups), how many of them found no page (missed), the lookup
\* that found one (hitAt), the migrate() calls, the lookups of home after
\* migrate() (retries), the stages run, whether this.settings was set when
\* they ran (hadSettings), whether this.debug was (debugOn), the stages whose
\* eval threw (threw), whether the header's fallback document was built
\* (headerFailed), how the request ended (outcome, err), what was sent to
\* the client (responses) and whether the bootstrap had ended with 'Unable to
\* find CMS settings' when the request arrived (refused).
IdleReq ==
    [pc |-> "idle", path |-> <<>>, cmsTokens |-> <<>>, cmsTokenIndex |-> 0,
     cmsPage |-> Undefined, lookups |-> <<>>, missed |-> 0, hitAt |-> 0,
     retries |-> 0, migrations |-> 0, hadSettings |-> FALSE,
     outcome |-> "none", err |-> "none", output |-> Undefined, stages |-> <<>>,
     threw |-> <<>>, headerFailed |-> FALSE, debugOn |-> FALSE,
     responses |-> <<>>, refused |-> FALSE]

\* req.originalUrl: it starts with "/".  An atom is a whole run of characters
\* between separators, so no two atoms other than "/" are adjacent.
PathAtoms == {"/", "blog", "POST"}
Paths ==
    UNION {{p \in [1..n -> PathAtoms] :
               /\ p[1] = "/"
               /\ \A i \in 1..(n - 1) : p[i] = "/" \/ p[i + 1] = "/"} : n \in 1..MaxPathLen}

Envs == {"development", "production"}

\* new CMS(server, database, username, password): the arguments of the
\* repository's start script, and the sets the arguments are drawn from
StartArgs ==
    [server |-> Str(<<"localhost">>), database |-> Str(<<"cmsDB">>),
     username |-> Undefined, password |-> Undefined]
ArgSets ==
    [server : {Undefined, Str(<<>>), Str(<<"localhost">>)},
     database : {Undefined, Str(<<"cmsDB">>)},
     username : {Undefined, Str(<<"user">>)},
     password : {Undefined, Str(<<>>), Str(<<"secret">>)}]

\* mutant: the constructor enforces nothing
RequirementsNone(a) == "none"

\* the constructor's "enforce requirements": the string it throws, or "none"
Requirements(a) ==
    IF ~Truthy(a.server) \/ ~Truthy(a.database)
    THEN "MongoDB server and database are required"
    ELSE IF Truthy(a.username) /\ ~Truthy(a.password)
    THEN "MongoDB password is required when a username is provided"
    ELSE "none"

\* The runs that are checked: every request path against every database with
\* the repository's seed; every seed directory against every database with a
\* request for "/"; a MongoDB outage at any moment of such a run; a seed
\* directory that lacks the settings; and every combination of the
\* constructor's arguments.
RoutingRuns ==
    {[store |-> s, seed |-> SeedGood, env |-> e, path |-> p, outage |-> FALSE, direct |-> FALSE,
      args |-> StartArgs] :
        s \in Stores, e \in Envs, p \in Paths}
SeedingRuns ==
    {[store |-> s, seed |-> d, env |-> e, path |-> <<"/">>, outage |-> FALSE, direct |-> FALSE,
      args |-> StartArgs] :
        s \in Stores, e \in Envs, d \in Seeds}
OutageRuns ==
    {[store |-> s, seed |-> SeedGood, env |-> e, path |-> <<"/">>, outage |-> TRUE, direct |-> FALSE,
      args |-> StartArgs] :
        s \in Stores, e \in Envs}
\* a seed directory without settings, for the short request paths
SettingsRuns ==
    {[store |-> PartStore, seed |-> SeedNoSettings, env |-> e, path |-> p,
      outage |-> FALSE, direct |-> FALSE, args |-> StartArgs] :
        e \in Envs, p \in {x \in Paths : Len(x) <= 2}}
\* every combination of constructor arguments
ConfigRuns ==
    {[store |-> EmptyStore, seed |-> SeedGood, env |-> "production", path |-> <<"/">>,
      outage |-> FALSE, direct |-> FALSE, args |-> a] : a \in ArgSets}
\* the embedding script calls one document-store operation on the object
ApiRuns ==
    {[store |-> OldStore, seed |-> SeedGood, env |-> "production", path |-> <<"/">>,
      outage |-> o, direct |-> TRUE, args |-> a] :
        o \in BOOLEAN,
        a \in {StartArgs, [StartArgs EXCEPT !.username = Str(<<"user">>),
                                            !.password = Str(<<"secret">>)]}}
Runs ==
    RoutingRuns \cup SeedingRuns \cup OutageRuns \cup SettingsRuns \cup ConfigRuns \cup ApiRuns

\* no call of the embedding script
IdleCall ==
    [pc |-> "off", op |-> "none", id |-> <<>>, url |-> Undefined, reachable |-> FALSE,
     connected |-> FALSE, ok |-> FALSE, err |-> "none"]

\* the records the embedding script's call names: one stored, one not
CallIds == {<<"blog">>, <<"draft">>}

Init ==
    /\ storeUp = TRUE
    /\ queryUp = TRUE
    /\ conns = 0
    /\ webapp = FALSE
    /\ debug = FALSE
    /\ settings = Undefined
    /\ clock = 2
    /\ \E run \in Runs :
          /\ store = run.store
          /\ seed = run.seed
          /\ env = run.env
          /\ outage = run.outage
          /\ inbound = [r \in Requests |-> run.path]
          /\ boot = [pc |-> "new", err |-> "none", args |-> run.args, finds |-> 0,
                      this |-> Undefined]
          /\ call = [IdleCall EXCEPT !.pc = IF run.direct THEN "ready" ELSE "off"]
    /\ mig = [p \in Procs |-> IdleMig]
    /\ req = [r \in Requests |-> IdleReq]

(***************************************************************************)
(* migrate(force), step by step.                                           *)
(***************************************************************************)
\* the next directory entry is read; a metadata file is parsed for collection
\* and _id and looked up
MigExamine(p) ==
    /\ mig[p].phase = "next"
    /\ \E m \in {mig[p]} : \E j \in {NextJson(seed, m.idx)} :
           IF j > Len(seed)
           THEN /\ mig' = [mig EXCEPT ![p].phase = "done", ![p].idx = j]
                /\ conns' = conns
           ELSE \E collection \in {ParseCollection(seed[j].name)},
                   id \in {ParseId(seed[j].name)} :
                \E r \in {findOne(store, storeUp, queryUp, collection, Str(id))} :
                    /\ conns' = conns + r.left
                    /\ IF ~r.ok
                       THEN mig' = [mig EXCEPT ![p].phase = "failed", ![p].idx = j,
                                               ![p].err = r.err]
                       ELSE IF NeedsUpsert(r.val, m.force)
                       THEN mig' = [mig EXCEPT ![p].phase = "load", ![p].idx = j,
                                               ![p].collection = collection, ![p].id = id,
                                               ![p].existed = Truthy(r.val)]
                       ELSE mig' = [mig EXCEPT ![p].idx = j + 1,
                                               ![p].skipped = Append(@, <<collection, id>>)]
    /\ UNCHANGED <<store, storeUp, outage, seed, env, webapp, debug, settings, clock, boot,
                   req, inbound, queryUp, call>>

\* the metadata file and its source file are read into the document
MigLoad(p) ==
    /\ mig[p].phase = "load"
    /\ LET m == mig[p]
           r == LoadDocument(seed, seed[m.idx], m.collection, clock)
       IN  IF ~r.ok
           THEN /\ mig' = [mig EXCEPT ![p].phase = "failed", ![p].err = r.err]
                /\ clock' = clock
           ELSE /\ mig' = [mig EXCEPT ![p].phase = "upsert", ![p].document = r.val,
                                      ![p].mismatch =
                                          IF DividerMismatch(seed, seed[m.idx].name, m.collection)
                                          THEN @ \cup {<<m.collection, m.id>>} ELSE @]
                /\ clock' = IF Stamped(m.collection) THEN clock + 1 ELSE clock
    /\ UNCHANGED <<store, storeUp, outage, seed, env, webapp, debug, settings, boot, req,
                   inbound, queryUp, call, conns>>

\* the document is upserted
MigUpsert(p) ==
    /\ mig[p].phase = "upsert"
    /\ LET m == mig[p]
           r == replaceOne(store, storeUp, queryUp, m.collection, m.id, m.document)
       IN  /\ conns' = conns + r.left
           /\ IF ~r.ok
              THEN /\ mig' = [mig EXCEPT ![p].phase = "failed", ![p].err = r.err]
                   /\ store' = store
              ELSE /\ mig' = [mig EXCEPT ![p].phase = "next", ![p].idx = m.idx + 1,
                                         ![p].writes = Append(@, <<m.collection, m.id>>),
                                         ![p].rewrote =
                                             IF m.existed THEN Append(@, <<m.collection, m.id>>)
                                             ELSE @]
                   /\ store' = r.val
    /\ UNCHANGED <<storeUp, outage, seed, env, webapp, debug, settings, clock, boot, req,
                   inbound, queryUp, call>>

(***************************************************************************)
(* The constructor's settings bootstrap.                                   *)
(***************************************************************************)
\* new CMS(...): the requirements are enforced, the connection information is
\* retained and this.findOne('cms', { _id: 'settings' }) is called
Construct ==
    /\ boot.pc = "new"
    /\ boot' = IF Requirements(boot.args) # "none"
               THEN [boot EXCEPT !.pc = "threw", !.err = Requirements(boot.args)]
               ELSE [boot EXCEPT !.pc = "find1", !.finds = @ + 1, !.this = This(boot.args)]
    /\ UNCHANGED <<store, storeUp, outage, seed, env, webapp, debug, settings, clock, mig,
                   req, inbound, queryUp, call, conns>>

\* this.findOne('cms', { _id: 'settings' }) completes and its callback runs
BootFind ==
    /\ boot.pc = "find1"
    /\ LET r == findOne(store, storeUp, queryUp, Cms, Str(SettingsId))
       IN  /\ conns' = conns + r.left
           /\ IF ~r.ok
              THEN /\ boot' = [boot EXCEPT !.pc = "failed", !.err = r.err]
                   /\ UNCHANGED <<mig, settings>>
              ELSE IF ~webapp
              THEN /\ boot' = [boot EXCEPT !.pc = "failed", !.err = "TypeError"]
                   /\ UNCHANGED <<mig, settings>>
              ELSE IF ~Truthy(r.val) \/ env = "development"
              THEN /\ boot' = [boot EXCEPT !.pc = "migrate", !.err = "none"]
                   /\ mig' = [mig EXCEPT !["boot"] = StartMig(env = "development")]
                   /\ UNCHANGED settings
              ELSE /\ boot' = [boot EXCEPT !.pc = "ready", !.err = "none"]
                   /\ settings' = r.val
                   /\ UNCHANGED mig
    /\ UNCHANGED <<store, storeUp, outage, seed, env, webapp, debug, clock, req, inbound,
                   queryUp, call>>

\* the migration is done; settings are looked up again
BootRefind ==
    /\ boot.pc = "migrate"
    /\ mig["boot"].phase = "done"
    /\ LET r == findOne(store, storeUp, queryUp, Cms, Str(SettingsId))
       IN  /\ conns' = conns + r.left
           /\ IF ~r.ok
              THEN /\ boot' = [boot EXCEPT !.pc = "failed", !.err = r.err, !.finds = @ + 1]
                   /\ UNCHANGED settings
              ELSE IF ~Truthy(r.val)
              THEN /\ boot' = [boot EXCEPT !.pc = "failed", !.err = "Unable to find CMS settings",
                                           !.finds = @ + 1]
                   /\ UNCHANGED settings
              ELSE /\ boot' = [boot EXCEPT !.pc = "ready", !.err = "none", !.finds = @ + 1]
                   /\ settings' = r.val
    /\ UNCHANGED <<store, storeUp, outage, seed, env, webapp, debug, clock, mig, req, inbound,
                   queryUp, call>>

\* the migration failed: the chain's catch rethrows
BootMigrateFailed ==
    /\ boot.pc = "migrate"
    /\ mig["boot"].phase = "failed"
    /\ boot' = [boot EXCEPT !.pc = "failed", !.err = mig["boot"].err]
    /\ UNCHANGED <<store, storeUp, outage, seed, env, webapp, debug, settings, clock, mig,
                   req, inbound, queryUp, call, conns>>

\* listen() is called on the constructed object: the Express application is
\* created
Listen ==
    /\ boot.pc \notin {"new", "threw"}
    /\ ~webapp
    /\ webapp' = TRUE
    /\ debug' = (env = "development")
    /\ UNCHANGED <<store, storeUp, outage, seed, env, settings, clock, boot, mig, req,
                   inbound, queryUp, call, conns>>

\* the MongoDB server stops answering
StoreFails ==
    /\ outage
    /\ storeUp
    /\ storeUp' = FALSE
    /\ UNCHANGED <<store, outage, seed, env, webapp, debug, settings, clock, boot, mig, req,
                   inbound, queryUp, call, conns>>

\* the MongoDB server stops answering queries while it accepts connections
QueryFails ==
    /\ outage
    /\ storeUp
    /\ queryUp
    /\ queryUp' = FALSE
    /\ UNCHANGED <<store, storeUp, conns, outage, seed, env, webapp, debug, settings, clock,
                   boot, mig, req, inbound, call>>

\* the embedding script calls a document-store operation of the constructed
\* object with valid arguments, and the operation completes
Call ==
    /\ call.pc = "ready"
    /\ boot.pc \notin {"new", "threw"}
    /\ \E op \in Operations, id \in CallIds :
          \E url \in {ConnectionOf(op, boot.this)} :
          \E r \in {Operation(op, store, storeUp, queryUp, url, CmsPages, id,
                               OldPage(id, <<"default">>))} :
              /\ call' = [pc |-> "done", op |-> op, id |-> id, url |-> url,
                          reachable |-> storeUp /\ queryUp,
                          connected |-> Connects(url, storeUp),
                          ok |-> r.ok, err |-> r.err]
              /\ store' = IF r.ok THEN r.val ELSE store
              /\ conns' = conns + r.left
    /\ UNCHANGED <<storeUp, queryUp, outage, seed, env, webapp, debug, settings, clock,
                   boot, mig, req, inbound>>

(***************************************************************************)
(* The render stages of the central router (synchronous: one step).        *)
(* A render state holds the output document so far, the stages that ran    *)
(* and whether an error escaped to the router's outer catch.               *)
(***************************************************************************)
\* cmsPage.template.<field>: a TypeError when template is null or undefined,
\* undefined when template is a string
TemplateField(template, field) ==
    IF template.tag \in {"null", "undefined"} THEN [threw |-> TRUE, val |-> Undefined]
    ELSE IF template.tag = "object" THEN [threw |-> FALSE, val |-> template[field]]
    ELSE [threw |-> FALSE, val |-> Undefined]

\* htmlEscaper.escape(v) throws when v is null or undefined
EscapeThrows(v) == v.tag \in {"null", "undefined"}

\* output.alert(...), output.add(...): a TypeError when output is undefined
Alert(s, panel) ==
    IF s.output.tag = "html"
    THEN [s EXCEPT !.output = Html(Append(s.output.panels, panel))]
    ELSE [s EXCEPT !.escaped = TRUE, !.err = "TypeError"]

\* try { eval(cmsPage.template.header); } catch (err) { fallback document }
HeaderStage(s, cmsPage, set) ==
    LET h == TemplateField(cmsPage.template, "header")
        e == IF h.threw THEN [output |-> s.output, threw |-> TRUE]
             ELSE Eval(h.val, s.output, set)
        ran == [s EXCEPT !.stages = Append(@, "header"),
                         !.threw = IF e.threw THEN Append(@, "header") ELSE @]
    IN  IF ~e.threw THEN [ran EXCEPT !.output = e.output]
        ELSE IF set.tag # "object"
             THEN [ran EXCEPT !.output = Html(<<>>), !.escaped = TRUE, !.err = "TypeError"]
             ELSE [ran EXCEPT !.output = Html(<<"CMS Template header error">>),
                              !.headerFailed = TRUE]

\* try { eval(cmsPage.body); } catch (err) { output.alert(...) }
BodyStage(s, cmsPage, set) ==
    IF s.escaped THEN s
    ELSE LET e == Eval(cmsPage.body, s.output, set)
             ran == [s EXCEPT !.stages = Append(@, "body"), !.output = e.output,
                              !.threw = IF e.threw THEN Append(@, "body") ELSE @]
         IN  IF e.threw THEN Alert(ran, "CMS Page body error") ELSE ran

\* if (this.debug && output instanceof bs.HTML) { ... output.add(cmsDebugAlert); }
DebugStage(s, cmsPage, dbg) ==
    IF s.escaped \/ ~(dbg /\ s.output.tag = "html") THEN s
    ELSE LET h == TemplateField(cmsPage.template, "header")
             f == TemplateField(cmsPage.template, "footer")
             ran == [s EXCEPT !.stages = Append(@, "debug")]
         IN  IF \/ h.threw \/ EscapeThrows(h.val) \/ EscapeThrows(cmsPage.body)
                \/ f.threw \/ EscapeThrows(f.val)
             THEN [ran EXCEPT !.escaped = TRUE, !.err = "TypeError"]
             ELSE Alert(ran, "Source")

\* try { eval(cmsPage.template.footer); } catch (err) { output.alert(...) }
FooterStage(s, cmsPage, set) ==
    IF s.escaped THEN s
    ELSE LET f == TemplateField(cmsPage.template, "footer")
             e == IF f.threw THEN [output |-> s.output, threw |-> TRUE]
                  ELSE Eval(f.val, s.output, set)
             ran == [s EXCEPT !.stages = Append(@, "footer"), !.output = e.output,
                              !.threw = IF e.threw THEN Append(@, "footer") ELSE @]
         IN  IF e.threw THEN Alert(ran, "CMS Template footer error") ELSE ran

\* res.send(output.toString())
SendStage(s) ==
    IF s.escaped THEN s
    ELSE IF s.output.tag = "html" THEN [s EXCEPT !.stages = Append(@, "send")]
    ELSE [s EXCEPT !.escaped = TRUE, !.err = "TypeError"]

\* mutant: the body is evaluated before the header
RenderBodyFirst(cmsPage, set, dbg) ==
    LET s0 == [output |-> Undefined, stages |-> <<>>, threw |-> <<>>, escaped |-> FALSE,
               err |-> "none", headerFailed |-> FALSE]
    IN  Only({SendStage(s4) :
            s4 \in {FooterStage(s3, cmsPage, set) :
                s3 \in {DebugStage(s2, cmsPage, dbg) :
                    s2 \in {HeaderStage(s1, cmsPage, set) :
                        s1 \in {BodyStage(s0, cmsPage, set)}}}}})

\* let output; and the stages in the order of the code, each on the state the
\* one before it left
Render(cmsPage, set, dbg) ==
    LET s0 == [output |-> Undefined, stages |-> <<>>, threw |-> <<>>, escaped |-> FALSE,
               err |-> "none", headerFailed |-> FALSE]
    IN  Only({SendStage(s4) :
            s4 \in {FooterStage(s3, cmsPage, set) :
                s3 \in {DebugStage(s2, cmsPage, dbg) :
                    s2 \in {BodyStage(s1, cmsPage, set) :
                        s1 \in {HeaderStage(s0, cmsPage, set)}}}}})

(***************************************************************************)
(* The central router.                                                     *)
(***************************************************************************)
\* req.originalUrl.toLowerCase().split('/')
Tokens(path) == split(toLowerCase(path), "/")

\* mutant: the walk starts at the first token
LoopStartFirst(cmsTokens) == 1

\* for (let cmsTokenIndex = cmsTokens.length - 1; ...): the first position
LoopStart(cmsTokens) == Len(cmsTokens)

\* mutant: this.migrate(true)
RouterForceTrue == TRUE

\* this.migrate(): force is undefined
RouterForce == Truthy(Undefined)

\* mutant: the empty token is looked up as it is
NormalizeTokenKept(token) == token

\* if (cmsTokens[cmsTokenIndex] == '') cmsTokens[cmsTokenIndex] = 'home';
NormalizeToken(token) == IF token = <<>> THEN Home ELSE token

\* the number of parameters of the function registered as the 500 handler
ErrorHandlerArity == 3

\* mutant: next(err) is answered by nobody
ErrorResponsesNone(e) == <<>>

\* Express' answer to next(err): the first later layer whose function has four
\* parameters handles it (here console.error and res.sendStatus(500)); without
\* one Express' final handler answers with status 500 and, outside production,
\* the stack in the body
ErrorResponses(e) ==
    IF ErrorHandlerArity = 4
    THEN <<[status |-> 500, body |-> "Internal Server Error"]>>
    ELSE <<[status |-> 500,
            body |-> IF env = "production" THEN "Internal Server Error" ELSE "stack"]>>

\* the request ends: next(err)
Fail(q, e) ==
    [q EXCEPT !.pc = "done", !.outcome = "error", !.err = e,
              !.responses = @ \o ErrorResponses(e)]

\* the render stages and res.send, or next(err) for what escapes them
Respond(q, cmsPage, set, dbg) ==
    Only({[q EXCEPT !.pc = "done", !.cmsPage = cmsPage, !.hadSettings = set.tag = "object",
                    !.outcome = IF s.escaped THEN "error" ELSE "sent",
                    !.responses = IF s.escaped THEN @ \o ErrorResponses(s.err)
                                  ELSE Append(@, [status |-> 200, body |-> s.output]),
                    !.err = s.err, !.output = s.output, !.stages = s.stages,
                    !.threw = s.threw, !.headerFailed = s.headerFailed, !.debugOn = dbg] :
             s \in {Render(cmsPage, set, dbg)}})

\* a request arrives (the router exists once listen() has run)
ReqStart(r) ==
    /\ webapp
    /\ req[r].pc = "idle"
    /\ req' = [req EXCEPT ![r].pc = "lookup", ![r].path = inbound[r],
                          ![r].refused = (boot.pc = "failed"
                                            /\ boot.err = "Unable to find CMS settings"),
                          ![r].cmsTokens = Tokens(inbound[r]),
                          ![r].cmsTokenIndex = LoopStart(Tokens(inbound[r]))]
    /\ UNCHANGED <<store, storeUp, outage, seed, env, webapp, debug, settings, clock, boot,
                   mig, inbound, queryUp, call, conns>>

\* findPage(token): the page lookup.  A miss moves to the next token or, after
\* the last one, calls migrate()
ReqFindPage(r) ==
    /\ req[r].pc = "lookup"
    /\ LET q == req[r]
           i == q.cmsTokenIndex
           token == NormalizeToken(q.cmsTokens[i])
           found == findOne(store, storeUp, queryUp, CmsPages, Str(token))
           looked == [q EXCEPT !.cmsTokens[i] = token, !.lookups = Append(@, token)]
       IN  /\ conns' = conns + found.left
           /\ IF ~found.ok
              THEN /\ req' = [req EXCEPT ![r] = Fail(looked, found.err)]
                   /\ UNCHANGED mig
              ELSE IF Truthy(found.val)
              THEN /\ req' = [req EXCEPT ![r] = [looked EXCEPT !.pc = "template",
                                                               !.cmsPage = found.val,
                                                               !.hitAt = Len(looked.lookups)]]
                   /\ UNCHANGED mig
              ELSE IF i > 1
              THEN /\ req' = [req EXCEPT ![r] = [looked EXCEPT !.cmsTokenIndex = i - 1,
                                                               !.missed = @ + 1]]
                   /\ UNCHANGED mig
              ELSE /\ req' = [req EXCEPT ![r] = [looked EXCEPT !.pc = "migrate",
                                                               !.cmsTokenIndex = 0,
                                                               !.missed = @ + 1,
                                                               !.migrations = @ + 1]]
                   /\ mig' = [mig EXCEPT ![r] = StartMig(RouterForce)]
    /\ UNCHANGED <<store, storeUp, outage, seed, env, webapp, debug, settings, clock, boot,
                   inbound, queryUp, call>>

\* findPage: the template lookup that replaces page.template; the loop breaks
\* and the page is rendered
ReqFindTemplate(r) ==
    /\ req[r].pc = "template"
    /\ LET q == req[r]
           found == findOne(store, storeUp, queryUp, CmsTemplates, q.cmsPage.template)
       IN  /\ conns' = conns + found.left
           /\ IF ~found.ok
              THEN req' = [req EXCEPT ![r] = Fail(q, found.err)]
              ELSE req' = [req EXCEPT ![r] =
                       Respond(q, [q.cmsPage EXCEPT !.template = found.val], settings, debug)]
    /\ UNCHANGED <<store, storeUp, outage, seed, env, webapp, debug, settings, clock, boot,
                   mig, inbound, queryUp, call>>

\* after migrate(): cmsPage = await this.findOne('cmsPages', { '_id': 'home' })
ReqFindHome(r) ==
    /\ req[r].pc = "migrate"
    /\ mig[r].phase = "done"
    /\ LET q == [req[r] EXCEPT !.retries = @ + 1]
           found == findOne(store, storeUp, queryUp, CmsPages, Str(Home))
       IN  /\ conns' = conns + found.left
           /\ IF ~found.ok
              THEN req' = [req EXCEPT ![r] = Fail(q, found.err)]
              ELSE IF ~Truthy(found.val)
              THEN req' = [req EXCEPT ![r] = Fail(q, "Unable to find Home page")]
              ELSE req' = [req EXCEPT ![r] = Respond(q, found.val, settings, debug)]
    /\ UNCHANGED <<store, storeUp, outage, seed, env, webapp, debug, settings, clock, boot,
                   mig, inbound, queryUp, call>>

\* migrate() rejected
ReqMigrateFailed(r) ==
    /\ req[r].pc = "migrate"
    /\ mig[r].phase = "failed"
    /\ req' = [req EXCEPT ![r] = Fail(req[r], mig[r].err)]
    /\ UNCHANGED <<store, storeUp, outage, seed, env, webapp, debug, settings, clock, boot,
                   mig, inbound, queryUp, call, conns>>

Next ==
    \/ Construct
    \/ Listen
    \/ BootFind
    \/ BootRefind
    \/ BootMigrateFailed
    \/ StoreFails
    \/ QueryFails
    \/ Call
    \/ \E p \in Procs : MigExamine(p)
    \/ \E p \in Procs : MigLoad(p)
    \/ \E p \in Procs : MigUpsert(p)
    \/ \E r \in Requests : ReqStart(r)
    \/ \E r \in Requests : ReqFindPage(r)
    \/ \E r \in Requests : ReqFindTemplate(r)
    \/ \E r \in Requests : ReqFindHome(r)
    \/ \E r \in Requests : ReqMigrateFailed(r)

Spec == Init /\ [][Next]_vars

\* the steps of one asynchronous task: its migrate() call and, for a request,
\* the router's awaits
Step(p) ==
    \/ MigExamine(p)
    \/ MigLoad(p)
    \/ MigUpsert(p)
    \/ p \in Requests /\ (ReqFindPage(p) \/ ReqFindTemplate(p) \/ ReqFindHome(p)
                            \/ ReqMigrateFailed(p))

\* every store call and file read returns, and the event loop runs the
\* continuation of each one that has
LiveSpec == Spec /\ \A p \in Procs : WF_vars(Step(p))

(***************************************************************************)
(* Properties of the central router.                                       *)
(***************************************************************************)
\* the tokens of a request's path, as split
Raw(q) == Tokens(q.path)
\* the identifier the walk looks up for the k-th token from the end
Expected(q, k) ==
    LET token == Raw(q)[Len(Raw(q)) + 1 - k]
    IN  IF token = <<>> THEN Home ELSE token
\* a page is stored under this identifier
StoredPage(id) == <<CmsPages, id>> \in DOMAIN store

\* C1: for a path that splits into [t1,...,tn] the page lookups are issued in
\* the order tn, ..., t1 (an empty token as home); the lookup that finds a
\* stored page is the last one of the request, and as long as none has found
\* one the walk goes on to the next token, down to t1.
C1_ReverseWalk ==
    \A r \in Requests :
        LET q == req[r]
            n == Len(Raw(q))
        IN  q.pc # "idle" =>
              /\ Len(q.lookups) <= n
              /\ \A k \in 1..Len(q.lookups) : q.lookups[k] = Expected(q, k)
              /\ q.hitAt # 0 => q.hitAt = Len(q.lookups) /\ q.missed = q.hitAt - 1
              /\ q.pc = "lookup" =>
                    /\ q.hitAt = 0
                    /\ q.missed = Len(q.lookups)
                    /\ q.cmsTokenIndex = n - Len(q.lookups)
              /\ q.pc = "migrate" => q.hitAt = 0 /\ q.missed = n /\ Len(q.lookups) = n

\* C1 witness: a request whose walk missed on a deeper token and then found the
\* page of a shallower, different token
C1_Witness ==
    \E r \in Requests :
        /\ req[r].outcome = "sent"
        /\ req[r].hitAt >= 2
        /\ req[r].lookups[1] # req[r].lookups[req[r].hitAt]
        /\ req[r].lookups[req[r].hitAt] # Home

\* C2 (as claimed): the page found by the walk is the one named by the deepest
\* segment that names a stored page; the page of a shallower segment, or home
\* for an empty token, is taken only when no deeper segment names a stored page.
C2_DeepestSegmentWins ==
    \A r \in Requests :
        LET q == req[r]
            n == Len(Raw(q))
            i == n + 1 - q.hitAt
        IN  q.pc = "template" =>
              \A j \in 1..n :
                  (Raw(q)[j] # <<>> /\ StoredPage(Raw(q)[j])) => (Raw(q)[i] # <<>> /\ j <= i)

\* C3 (as claimed): no lookup has an empty identifier, and each empty token of
\* the path causes exactly one lookup of home at its position of the walk.
C3_EveryEmptyTokenLooksUpHome ==
    \A r \in Requests :
        LET q == req[r]
            n == Len(Raw(q))
        IN  q.outcome = "sent" =>
              /\ \A k \in 1..Len(q.lookups) : q.lookups[k] # <<>>
              /\ \A j \in 1..n :
                    Raw(q)[j] = <<>> =>
                        /\ Len(q.lookups) >= n + 1 - j
                        /\ q.lookups[n + 1 - j] = Home

\* C3 (amended): no lookup has an empty identifier; each empty token the walk
\* reaches is replaced by home in cmsTokens and causes exactly one lookup, of
\* home, at its position of the walk; the tokens the walk does not reach
\* (those before a token whose lookup found a page or failed) cause none.
C3_ReachedEmptyTokenLooksUpHome ==
    \A r \in Requests :
        LET q == req[r]
            n == Len(Raw(q))
        IN  q.pc # "idle" =>
              /\ \A k \in 1..Len(q.lookups) : q.lookups[k] # <<>>
              /\ \A j \in 1..n :
                    IF j >= n + 1 - Len(q.lookups)
                    THEN /\ q.cmsTokens[j] = q.lookups[n + 1 - j]
                         /\ Raw(q)[j] = <<>> => q.lookups[n + 1 - j] = Home
                         /\ Raw(q)[j] # <<>> => q.lookups[n + 1 - j] = Raw(q)[j]
                    ELSE q.cmsTokens[j] = Raw(q)[j]
              /\ Cardinality({k \in 1..Len(q.lookups) : q.lookups[k] = Home})
                    = Cardinality({j \in (n + 1 - Len(q.lookups))..n : Raw(q)[j] = <<>>})

\* C3 witness: a walk that looked up home for a trailing empty token, missed,
\* and went on to the token before it
C3_Witness ==
    \E r \in Requests :
        /\ Len(req[r].lookups) >= 2
        /\ Raw(req[r])[Len(Raw(req[r]))] = <<>>
        /\ req[r].lookups[1] = Home
        /\ req[r].lookups[2] # Home

\* C4: a request migrates only when every token's lookup found no page, and
\* then once and unforced; home is looked up once more, and only after that
\* migrate() has returned success; when home is still absent the request ends
\* with the error 'Unable to find Home page' and no stage has run.
C4_HomeFallback ==
    \A r \in Requests :
        LET q == req[r]
            n == Len(Raw(q))
        IN  /\ q.migrations <= 1
            /\ q.retries <= 1
            /\ q.hitAt # 0 => q.migrations = 0 /\ q.retries = 0 /\ mig[r].phase = "idle"
            /\ (q.pc # "idle" /\ q.missed = n) =>
                    q.migrations = 1 /\ mig[r].phase # "idle" /\ ~mig[r].force
            /\ q.migrations = 1 => q.missed = n
            /\ q.retries = 1 => q.migrations = 1 /\ mig[r].phase = "done"
            /\ (q.pc = "done" /\ mig[r].phase = "done") => q.retries = 1
            /\ (q.pc = "done" /\ q.retries = 1 /\ q.cmsPage.tag # "object"
                    /\ q.err # "MongoError") =>
                    /\ q.outcome = "error"
                    /\ q.err = "Unable to find Home page"
                    /\ q.stages = <<>>
                    /\ q.output = Undefined
            /\ q.err = "Unable to find Home page" => q.retries = 1 /\ q.stages = <<>>

\* C4 witness: every lookup missed, migrate() ran and home was still absent
C4_Witness ==
    \E r \in Requests :
        /\ req[r].err = "Unable to find Home page"
        /\ req[r].missed = Len(Raw(req[r]))
        /\ req[r].retries = 1
        /\ mig[r].phase = "done"

\* C5 (as claimed): a request for "/" that finds no home page, with the seed
\* that defines the home page, its template and the settings, and with
\* this.settings loaded, ends with the home page rendered and sent.
C5_HomeRenderedAfterMigration ==
    \A r \in Requests :
        LET q == req[r]
        IN  (/\ q.pc = "done"
             /\ q.path = <<"/">>
             /\ seed = SeedGood
             /\ q.missed = Len(Raw(q))
             /\ q.retries = 1
             /\ q.cmsPage.tag = "object"
             /\ q.hadSettings) =>
                /\ q.outcome = "sent"
                /\ q.stages = (IF debug THEN <<"header", "body", "debug", "footer", "send">>
                               ELSE <<"header", "body", "footer", "send">>)

\* C6 (as claimed): the page the render stages get holds the looked-up
\* template record, or null, in its template field, never the identifier.
C6_TemplateReplaced ==
    \A r \in Requests :
        req[r].stages # <<>> => req[r].cmsPage.template.tag \in {"object", "null"}

(***************************************************************************)
(* Properties of migrate.                                                  *)
(***************************************************************************)
\* the <<collection, _id>> of the metadata files of dir from entry i on
RECURSIVE JsonKeys(_, _)
JsonKeys(dir, i) ==
    IF i > Len(dir) THEN <<>>
    ELSE IF dir[i].ext = ".json"
         THEN <<<<ParseCollection(dir[i].name), ParseId(dir[i].name)>>>> \o JsonKeys(dir, i + 1)
         ELSE JsonKeys(dir, i + 1)
\* process p takes a step of its migrate() call
MigSteps(p) == mig[p].phase # "idle" /\ mig'[p] # mig[p]
\* the set of records of a sequence
Range(s) == {s[i] : i \in 1..Len(s)}

\* C7: a step of an unforced migrate() changes or adds no record but the one it
\* is processing, and that one only if it was absent when the run examined it;
\* a forced migrate() skips no metadata file, and when it returns success it
\* has upserted the record of every metadata file of the seed directory.
C7_ForceGatesOverwrite ==
    [][\A p \in Procs :
          MigSteps(p) =>
            /\ DOMAIN store \subseteq DOMAIN store'
            /\ ~mig[p].force =>
                  /\ mig'[p].rewrote = <<>>
                  /\ \A k \in DOMAIN store' :
                        (k \notin DOMAIN store \/ store'[k] # store[k]) =>
                            (k = <<mig[p].collection, mig[p].id>> /\ ~mig[p].existed)
            /\ mig[p].force =>
                  /\ mig'[p].skipped = <<>>
                  /\ mig'[p].phase = "done" => mig'[p].writes = JsonKeys(seed, 1)]_vars

\* C7 witness: a forced run has rewritten records that existed, and an unforced
\* run has returned after leaving existing records alone
C7_Witness ==
    \E p, q \in Procs :
        /\ mig[p].force /\ mig[p].phase = "done" /\ mig[p].rewrote # <<>>
        /\ ~mig[q].force /\ mig[q].phase = "done" /\ mig[q].skipped # <<>>

\* C8: an unforced migrate() that begins after a migrate() call has returned
\* success writes nothing: none of its steps changes the database, and it
\* never gets to read a file or to upsert.
C8_SecondRunWritesNothing ==
    [][\A p \in Procs :
          (MigSteps(p) /\ ~mig[p].force /\ mig[p].afterSeed) =>
            /\ store' = store
            /\ mig'[p].writes = <<>>
            /\ mig'[p].phase \notin {"load", "upsert"}]_vars

\* C8 witness: such a second run has examined every record and returned
C8_Witness ==
    \E p \in Procs :
        /\ ~mig[p].force /\ mig[p].afterSeed /\ mig[p].phase = "done"
        /\ Len(mig[p].skipped) >= 2

\* C9 (as claimed): when the source of a cmsTemplates entry does not split into
\* three parts, migrate() fails and the template's record is not written.
C9_DividerMismatchFails ==
    \A p \in Procs :
        \A k \in mig[p].mismatch :
            mig[p].phase = "failed" /\ k \notin Range(mig[p].writes)

\* C10 (as claimed): migrate() returns success only when every metadata entry
\* has been processed without a fatal error; at the first fatal error (a failed
\* store operation, a JSON.parse failure, a divider count mismatch) it has
\* failed, with the entries before the failing one processed and no other.
C10_FirstErrorAborts ==
    \A p \in Procs :
        LET m == mig[p]
            processed == Len(m.writes) + Len(m.skipped)
        IN  /\ m.phase = "done" =>
                  processed = Len(JsonKeys(seed, 1)) /\ m.err = "none" /\ m.mismatch = {}
            /\ m.phase = "failed" =>
                  /\ m.err # "none"
                  /\ processed = Len(JsonKeys(seed, 1)) - Len(JsonKeys(seed, m.idx))
            /\ (m.err # "none" \/ m.mismatch # {}) => m.phase = "failed"

\* C11: when a migrate() call has returned success, the record of every
\* metadata file of the seed directory is in the database under its collection
\* and _id; and when the seed defines cmsPages-home, the lookup of home that
\* the router issues after its migrate() finds the page.
C11_SeedRecordsExist ==
    /\ \A p \in Procs :
          mig[p].phase = "done" =>
              \A k \in Range(JsonKeys(seed, 1)) : k \in DOMAIN store
    /\ \A r \in Requests :
          (/\ req[r].retries = 1
           /\ <<CmsPages, Home>> \in Range(JsonKeys(seed, 1))
           /\ req[r].err # "MongoError") =>
              /\ req[r].cmsPage.tag = "object"
              /\ req[r].cmsPage.id = Str(Home)

\* C11 witness: a migrate() call on a database without home has returned, and
\* the router's lookup of home after it found the page the seed defines
C11_Witness ==
    \E r \in Requests :
        /\ mig[r].phase = "done"
        /\ <<CmsPages, Home>> \in Range(mig[r].writes)
        /\ req[r].retries = 1
        /\ req[r].cmsPage.tag = "object"
        /\ req[r].cmsPage.data = "seed"

(***************************************************************************)
(* Properties of the render stages.                                        *)
(***************************************************************************)
\* the panels of the output document a request was left with
Panels(q) == IF q.output.tag = "html" THEN Range(q.output.panels) ELSE {}
\* a fragment that is not stored: null or undefined
Missing(fragment) == fragment.tag \in {"null", "undefined"}

\* C12 (as claimed): when the evaluation of the template header throws, the
\* fallback document with the 'CMS Template header error' panel is built, the
\* body and footer stages run and the request ends with the document sent.
C12_HeaderFailureContained ==
    \A r \in Requests :
        LET q == req[r]
        IN  "header" \in Range(q.threw) =>
              /\ q.outcome = "sent"
              /\ "CMS Template header error" \in Panels(q)
              /\ {"body", "footer"} \subseteq Range(q.stages)

\* C13 (as claimed): when the evaluation of the page body throws, and when
\* that of the template footer throws, the stage's panel is appended to the
\* document the earlier stages left, the later stages run and the request ends
\* with the document sent, whatever the header stage did.
C13_BodyFooterFailureContained ==
    \A r \in Requests :
        LET q == req[r]
        IN  /\ "body" \in Range(q.threw) =>
                  /\ q.outcome = "sent"
                  /\ "CMS Page body error" \in Panels(q)
                  /\ "footer" \in Range(q.stages)
            /\ "footer" \in Range(q.threw) =>
                  /\ q.outcome = "sent"
                  /\ "CMS Template footer error" \in Panels(q)

\* C14 (as claimed): a page whose template record is not stored, or whose
\* template lacks the header or the footer, ends with the document sent, with
\* this.debug on and off.
C14_MissingTemplateRendered ==
    \A r \in Requests :
        LET q == req[r]
            template == q.cmsPage.template
        IN  (/\ q.stages # <<>>
             /\ \/ template.tag = "null"
                \/ /\ template.tag = "object"
                   /\ Missing(template.header) \/ Missing(template.footer)) =>
                q.outcome = "sent"

\* C15 (as claimed): whenever a render stage of a request has run,
\* this.settings was set.
C15_SettingsBeforeRender ==
    \A r \in Requests : req[r].stages # <<>> => req[r].hadSettings

\* C16 (as claimed): a request that arrives after the bootstrap has ended with
\* 'Unable to find CMS settings' ends as an error, never with a document sent.
C16_NoSettingsRefuses ==
    \A r \in Requests :
        (req[r].refused /\ req[r].pc = "done") =>
            req[r].outcome = "error" /\ req[r].stages = <<>>

\* C17 (as claimed): while every migrate() call is unforced, no step of one
\* replaces a record that is in the database: each only adds absent records.
C17_ConcurrentMigrationsInsertOnly ==
    [][\A p \in Procs :
          (MigSteps(p) /\ \A q \in Procs : ~mig[q].force) =>
              \A k \in DOMAIN store : store'[k] = store[k]]_vars

\* what a request has got when the router is done with it: one response,
\* the document with status 200 or status 500, and nothing before that
OneResponse(q) ==
    /\ q.pc # "done" => q.responses = <<>>
    /\ q.pc = "done" =>
          /\ Len(q.responses) = 1
          /\ q.outcome \in {"sent", "error"}
          /\ q.outcome = "sent" =>
                /\ q.responses[1].status = 200
                /\ q.responses[1].body = q.output
                /\ q.output.tag = "html"
                /\ q.err = "none"
          /\ q.outcome = "error" =>
                /\ q.responses[1].status = 500
                /\ q.err # "none"

\* C18: a request the router handles gets exactly one of the two outcomes, the
\* serialized document or status 500 for the error passed to next(), never
\* both; and provided every store call and file read returns, it gets one.
C18_ExactlyOneOutcome ==
    /\ [](\A r \in Requests : OneResponse(req[r]))
    /\ \A r \in Requests : (req[r].pc # "idle") ~> (req[r].pc = "done")

\* C18 witness: a request whose render stages threw outside their try blocks
\* was answered with status 500 and no document
C18_Witness ==
    \E r \in Requests :
        /\ req[r].pc = "done"
        /\ req[r].stages # <<>>
        /\ req[r].err = "TypeError"
        /\ req[r].responses = <<[status |-> 500, body |-> "Internal Server Error"]>>

(***************************************************************************)
(* Properties of the constructor.                                          *)
(***************************************************************************)
\* C19: with no server or no database, or with a username and no password,
\* the constructor throws: the object is never constructed, the settings
\* lookup is never issued, no migrate() starts and no request is served.
C19_InvalidConfigFailsAtConstruction ==
    LET a == boot.args
    IN  (~Truthy(a.server) \/ ~Truthy(a.database)
            \/ (Truthy(a.username) /\ ~Truthy(a.password))) =>
          /\ boot.pc \in {"new", "threw"}
          /\ boot.pc = "threw" <=> boot.err # "none"
          /\ boot.err \in {"none", "MongoDB server and database are required",
                            "MongoDB password is required when a username is provided"}
          /\ boot.finds = 0
          /\ ~webapp
          /\ settings = Undefined
          /\ \A p \in Procs : mig[p].phase = "idle"
          /\ \A r \in Requests : req[r].pc = "idle"

\* C19 witness: the constructor has thrown for a username without a password
C19_Witness ==
    /\ boot.pc = "threw"
    /\ Truthy(boot.args.server) /\ Truthy(boot.args.database)
    /\ Truthy(boot.args.username)
    /\ boot.err = "MongoDB password is required when a username is provided"

(***************************************************************************)
(* The order of the render stages.                                         *)
(***************************************************************************)
\* s is the beginning of t
IsPrefix(s, t) == Len(s) <= Len(t) /\ SubSeq(t, 1, Len(s)) = s
\* the stages in the order of the code
StageOrder(dbg) ==
    IF dbg THEN <<"header", "body", "debug", "footer", "send">>
    ELSE <<"header", "body", "footer", "send">>

\* C20: the stages a request has run are a beginning of header, body, debug,
\* footer, send, or of that order without debug: each at most once, none
\* before the one ahead of it has ended; debug runs only with this.debug on;
\* and a request whose document was sent has run them all.
C20_StagesInOrder ==
    \A r \in Requests :
        LET q == req[r]
        IN  /\ IsPrefix(q.stages, StageOrder(TRUE)) \/ IsPrefix(q.stages, StageOrder(FALSE))
            /\ "debug" \in Range(q.stages) => q.debugOn
            /\ \A stage \in Range(q.threw) : stage \in Range(q.stages)
            /\ q.outcome = "sent" => q.stages = StageOrder(q.debugOn)

\* C20 witness: a request has run the five stages with a stage's failure
\* handled on the way, and its document was sent
C20_Witness ==
    \E r \in Requests :
        /\ req[r].outcome = "sent"
        /\ req[r].stages = StageOrder(TRUE)
        /\ req[r].threw # <<>>

\* C21 (as claimed): the debug panel is in the document only when this.debug
\* is on and the header stage itself produced the document: never with
\* this.debug off, and never when the header's evaluation failed.
C21_DebugPanelOnlyAfterHeader ==
    \A r \in Requests :
        LET q == req[r]
        IN  ("debug" \in Range(q.stages) \/ "Source" \in Panels(q)) =>
              /\ q.debugOn
              /\ "header" \notin Range(q.threw)
              /\ ~q.headerFailed

(***************************************************************************)
(* Properties of the documents migrate writes.                             *)
(***************************************************************************)
\* the base name of the files of record k
FileName(k) == k[1] \o <<"-">> \o k[2]
\* process p's migrate() call gets its upsert done in this step
Upserts(p) == mig[p].phase = "upsert" /\ mig'[p].phase = "next"

\* C22: a page or template that migrate has written and whose source file is
\* not in the seed directory is stored from the JSON payload alone, without
\* header, body and footer, and no migrate() call fails with the read error;
\* a page whose source file is there is stored with the file's content as body.
C22_SourceReadFailureNotFatal ==
    \A p \in Procs :
        /\ mig[p].err # "ENOENT"
        /\ \A k \in Range(mig[p].writes) :
              LET file == readFile(seed, FileName(k), ".js")
              IN  /\ k \in DOMAIN store
                  /\ store[k].data = "seed"
                  /\ (Stamped(k[1]) /\ ~file.ok) =>
                        /\ store[k].header = Undefined
                        /\ store[k].body = Undefined
                        /\ store[k].footer = Undefined
                  /\ (k[1] = CmsPages /\ file.ok) => store[k].body = Str(file.val.src)

\* C22 witness: a migrate() call has returned after writing a template that
\* has no source file and a page that has one
C22_Witness ==
    \E p \in Procs :
        /\ mig[p].phase = "done"
        /\ <<CmsTemplates, <<"bare">>>> \in Range(mig[p].writes)
        /\ <<CmsPages, <<"my", "-", "post">>>> \in Range(mig[p].writes)
        /\ store[<<CmsPages, <<"my", "-", "post">>>>].body = Str(<<"useOut", "nop">>)

\* the position of the first '-' of a file name
FirstDash(name) ==
    CHOOSE i \in 1..Len(name) : name[i] = "-" /\ \A j \in 1..(i - 1) : name[j] # "-"

\* C23: for the metadata file a migrate() call is at, the collection is the
\* text before the first '-' of the base name and the _id all the text after
\* it; the record looked up and left alone, and the record an upsert writes,
\* is the one of that pair, and the upsert changes no other.
C23_NameSplitAtFirstDash ==
    [][\A p \in Procs :
          LET m == mig[p]
              name == seed[m.idx].name
              pair == <<SubSeq(name, 1, FirstDash(name) - 1),
                        SubSeq(name, FirstDash(name) + 1, Len(name))>>
          IN  /\ m.phase \in {"load", "upsert"} => <<m.collection, m.id>> = pair
              /\ (m.phase = "next" /\ Len(mig'[p].skipped) > Len(m.skipped)) =>
                    LET at == seed[mig'[p].idx - 1].name
                    IN  /\ mig'[p].skipped[Len(mig'[p].skipped)] =
                              <<SubSeq(at, 1, FirstDash(at) - 1),
                                SubSeq(at, FirstDash(at) + 1, Len(at))>>
                        /\ mig'[p].skipped[Len(mig'[p].skipped)] \in DOMAIN store
              /\ Upserts(p) =>
                    /\ pair \in DOMAIN store'
                    /\ store'[pair].id = Str(pair[2])
                    /\ mig'[p].writes = Append(m.writes, pair)
                    /\ \A k \in DOMAIN store' \ {pair} :
                          k \in DOMAIN store /\ store'[k] = store[k]]_vars

\* C23 witness: the page of file cmsPages-my-post.json is stored under the
\* _id my-post
C23_Witness ==
    \E p \in Procs :
        /\ <<CmsPages, <<"my", "-", "post">>>> \in Range(mig[p].writes)
        /\ <<CmsPages, <<"my", "-", "post">>>> \in DOMAIN store
        /\ <<CmsPages, <<"post">>>> \notin Range(mig[p].writes)

\* C25: an upsert of a page or template writes the record with created and
\* updated both set to the time the document was built, so a record that was
\* there loses its created time; an upsert of another collection writes no
\* timestamps and nothing of a source file.
C25_TimestampsOnEveryUpsert ==
    [][\A p \in Procs :
          Upserts(p) =>
            LET k == <<mig[p].collection, mig[p].id>>
            IN  IF k[1] \in {CmsPages, CmsTemplates}
                THEN /\ store'[k].created = store'[k].updated
                     /\ store'[k].created = mig[p].document.created
                     /\ store'[k].created \in 2..(clock - 1)
                     /\ (k \in DOMAIN store /\ store[k].data = "old") =>
                            store'[k].created # store[k].created
                ELSE /\ store'[k].created = 0
                     /\ store'[k].updated = 0
                     /\ store'[k].header = Undefined
                     /\ store'[k].body = Undefined
                     /\ store'[k].footer = Undefined]_vars

\* C25 witness: a forced migrate() call has rewritten a page that was there,
\* and the page has a new created time; the settings are stored without one
C25_Witness ==
    \E p \in Procs :
        /\ mig[p].force
        /\ <<CmsPages, Home>> \in Range(mig[p].rewrote)
        /\ store[<<CmsPages, Home>>].created > 1
        /\ <<Cms, SettingsId>> \in Range(mig[p].writes)
        /\ store[<<Cms, SettingsId>>].created = 0

(***************************************************************************)
(* Properties of the settings bootstrap.                                   *)
(***************************************************************************)
\* C26 (as claimed): the bootstrap never fails because this._webapp is not
\* set when the settings lookup completes, whenever listen() is called.
C26_BootstrapIndependentOfListen ==
    boot.pc = "failed" => boot.err # "TypeError"

\* the record of metadata file i of the seed directory is stored as the seed
\* defines it (the timestamps aside)
AsSeeded(i) ==
    LET collection == ParseCollection(seed[i].name)
        k == <<collection, ParseId(seed[i].name)>>
        built == LoadDocument(seed, seed[i], collection, 0)
    IN  /\ k \in DOMAIN store
        /\ built.ok
        /\ [store[k] EXCEPT !.created = 0, !.updated = 0] = [built.val EXCEPT !.id = Str(k[2])]

\* the callback of the bootstrap's first settings lookup runs in this step,
\* the lookup having succeeded
BootLooksUp == boot.pc = "find1" /\ boot'.pc # "find1" /\ storeUp

\* C27 (as claimed): in development the bootstrap runs a forced migration
\* whether or not the settings are stored, and once it has ended well every
\* record the seed defines is stored as defined; in any other mode it runs a
\* migration only when the settings are not stored, and an unforced one; the
\* migration of a request is unforced in every mode.
C27_ForcedOnlyInDevelopment ==
    [][/\ BootLooksUp =>
            IF env = "development"
            THEN boot'.pc = "migrate" /\ mig'["boot"].phase = "next" /\ mig'["boot"].force
            ELSE IF <<Cms, SettingsId>> \in DOMAIN store
            THEN boot'.pc = "ready" /\ mig'["boot"].phase = "idle"
            ELSE boot'.pc = "migrate" /\ mig'["boot"].phase = "next" /\ ~mig'["boot"].force
       /\ (boot'.pc = "ready" /\ env = "development") =>
            \A i \in 1..Len(seed) : seed[i].ext = ".json" => AsSeeded(i)'
       /\ \A r \in Requests : ~mig'[r].force]_vars

(***************************************************************************)
(* Properties of the document-store operations.                            *)
(***************************************************************************)
\* C24: every document-store operation closes the connection it opened,
\* whether it resolved or rejected: no connection is open when no operation is
\* in flight (an operation is one step, so none is in flight in any state)
C24_ConnectionsClosed == conns = 0

\* C28: every document-store operation connects with the connection string
\* configured in the constructor, so a call with valid arguments against a
\* reachable store reaches the store for each operation alike
C28_EveryOperationConnectsAsConfigured ==
    call.pc = "done" =>
        /\ call.url = ConnectionString(boot.args)
        /\ call.reachable => call.connected

====
